---- MODULE Spec2Model ----
(***************************************************************************)
(* Model of FreeboxMachineReconciler.Reconcile: the reconciliation state   *)
(* machine that drives download -> extract|copy -> rename -> resize ->     *)
(* create VM -> start VM -> address discovery, and the deletion protocol.  *)
(*                                                                         *)
(* One invocation of Reconcile is a sequence of steps, one per remote call *)
(* or store write, taken in program order; pc is the position inside the   *)
(* invocation.  Between two steps the process may crash and another writer *)
(* may touch the stored object (which makes the in-memory resourceVersion  *)
(* stale, so the next write of the invocation is rejected as a conflict).  *)
(***************************************************************************)
EXTENDS Integers, Sequences, FiniteSets, TLC

\* ---------------------------------------------------------------------
\* Bounds of the model
\* ---------------------------------------------------------------------
\* number of VMs the appliance accepts to create
MaxVMs == 2
\* number of tasks (download, filesystem, disk) the appliance accepts
MaxTasks == 4

\* ---------------------------------------------------------------------
\* Program constants
\* ---------------------------------------------------------------------
FreeboxMachineFinalizer == "freeboxmachine.infrastructure.cluster.x-k8s.io/finalizer"
\* for i := 0; i < 30; i++
MaxStopPolls == 30
FreeboxDownloadDir == "/downloads"
VMStoragePath == "/VMs"

\* ---------------------------------------------------------------------
\* File names.  A file name is the sequence of its dot-separated segments:
\* "image.raw.xz" is <<"image", "raw", "xz">>.  An extension is <<>> (empty
\* string) or <<seg>> (".seg").
\* ---------------------------------------------------------------------
ToLower(s) ==
  CASE s = "XZ" -> "xz"
    [] s = "GZ" -> "gz"
    [] s = "QCOW2" -> "qcow2"
    [] OTHER -> s

\* path.Ext: the suffix beginning at the final dot of the name
Ext(name) == IF Len(name) >= 2 THEN <<name[Len(name)]>> ELSE <<>>

\* a classification that compares the extension without lower-casing it
isCompressedFileCaseSensitive(name) ==
  LET ext == Ext(name) IN
    /\ ext # <<>>
    /\ ext[1] \in {"gz", "xz", "bz2", "zip", "tar"}

isCompressedFile(name) ==
  LET ext == Ext(name) IN
    /\ ext # <<>>
    /\ ToLower(ext[1]) \in {"gz", "xz", "bz2", "zip", "tar"}

stripCompressionSuffix(name) ==
  IF Len(name) >= 2 /\ ToLower(name[Len(name)]) \in {"xz", "gz", "bz2", "zip", "tar"}
    THEN SubSeq(name, 1, Len(name) - 1)
    ELSE IF Ext(name) # <<>> THEN SubSeq(name, 1, Len(name) - 1) ELSE name

removeCompressionExtension(name) == stripCompressionSuffix(name)

\* path.Join(dir, name)
Join(dir, name) == [dir |-> dir, name |-> name]
NoPath == [dir |-> "", name |-> <<>>]

\* path.Base(imageURL)
Base(url) == url.file

\* an underlying name that keeps the compressed suffix
underlyingNameKeepsSuffix(imageName) == imageName

underlyingName(imageName) ==
  IF isCompressedFile(imageName) THEN removeCompressionExtension(imageName) ELSE imageName

\* machine.Spec.Name + ext, ext defaulting to ".raw"
vmImageName(specName, imageName) ==
  LET ext == Ext(underlyingName(imageName)) IN
    <<specName>> \o (IF ext = <<>> THEN <<"raw">> ELSE ext)

finalImagePath(specName, imageName) == Join(VMStoragePath, vmImageName(specName, imageName))
downloadPath(imageName) == Join(FreeboxDownloadDir, imageName)

\* ---------------------------------------------------------------------
\* Conditions and the progress marker
\* ---------------------------------------------------------------------
\* a condition that is not in machine.Status.Conditions
NoCondition == [status |-> "", reason |-> "", message |-> [kind |-> "none"]]

\* fmt.Sprintf("phase=%s task_id=%d", ...) and its variants with src= dst=
PhaseMessage(phase, task) ==
  [kind |-> "phase", phase |-> phase, hasTask |-> TRUE, task |-> task,
   hasPaths |-> FALSE, src |-> NoPath, dst |-> NoPath]
PhaseMessagePaths(phase, task, src, dst) ==
  [kind |-> "phase", phase |-> phase, hasTask |-> TRUE, task |-> task,
   hasPaths |-> TRUE, src |-> src, dst |-> dst]
\* the literal "phase=done"
DoneMessage ==
  [kind |-> "phase", phase |-> "done", hasTask |-> FALSE, task |-> 0,
   hasPaths |-> FALSE, src |-> NoPath, dst |-> NoPath]
\* a free text such as "Image download failed"
TextMessage(text) == [kind |-> "text", text |-> text]

Condition(status, reason, message) ==
  [status |-> status, reason |-> reason, message |-> message]

\* fmt.Sscanf(phaseCond.Message, "phase=%s task_id=%d", &phase, &taskID):
\* the scan stops at the first mismatch and keeps what it has read so far
Sscanf(message) ==
  IF message.kind = "phase"
    THEN [phase |-> message.phase, taskID |-> IF message.hasTask THEN message.task ELSE 0]
    ELSE [phase |-> "", taskID |-> 0]

\* regexp `task_id=(\d+) src=(.+) dst=(.+)` on the rename message
RenamePaths(message) ==
  IF message.kind = "phase" /\ message.hasTask /\ message.hasPaths
    THEN [src |-> message.src, dst |-> message.dst]
    ELSE [src |-> NoPath, dst |-> NoPath]

\* fmt.Sprintf("freebox://%d", vm.ID); the empty string is <<>>
FormatProviderID(id) == <<"freebox://", id>>

\* ---------------------------------------------------------------------
\* State
\* ---------------------------------------------------------------------
VARIABLES
  spec,      \* desired fields of the machine resource: name, imageURL
  store,     \* the persisted machine resource (metadata, providerID, status)
  vms,       \* the appliance: state of every VM id
  nextTask,  \* the appliance: the id the next submitted task gets
  pc,        \* position of the running invocation ("idle" between invocations)
  machine,   \* the in-memory copy of the resource held by the invocation
  fresh,     \* the in-memory resourceVersion is the stored one
  taskID,    \* local taskID
  vm,        \* local vm: the id create-vm returned in this invocation
  i,         \* loop counter of the stop-wait loop
  ret,       \* outcome the invocation returns after the pending status write
  calls,     \* remote calls and store writes issued by the invocation, in order
             \* (a run of identical consecutive calls is recorded once)
  result,    \* outcome of the invocation once it has returned
  entry,     \* the step the dispatch of the running invocation selected
  submitted, \* the appliance: number of tasks accepted so far, per pipeline step
  polledDone, \* the pipeline steps for which a status query has answered "done"
  interrupted, \* the step and task id selected by the invocation that crashed last,
              \* until the invocation that follows the crash returns
  cluster,   \* the persisted cluster resource
  clusterRun, \* the running invocation of FreeboxClusterReconciler.Reconcile: its
             \* position, the object it fetched, its in-memory object, its
             \* outcome and the number of writes it has issued
  pair       \* two machine resources with the image URL of spec, reconciled side
             \* by side: the phase and task each one has persisted, and the
             \* files of the appliance with the resource that wrote each last

\* the state the reconciliation of the machine resource leaves alone
clusterVars == <<cluster, clusterRun, pair>>

vars == <<spec, store, vms, nextTask, pc, machine, fresh, taskID, vm, i, ret, calls, result,
          entry, submitted, polledDone, interrupted, cluster, clusterRun, pair>>

VMIDs == 1..MaxVMs

\* the steps of the image pipeline that run as a task of the appliance
PipelineSteps == {"download", "extract", "copy", "rename", "resize"}

\* the specs the model starts from: (vm name, image URL)
ImageURLs ==
  { [dir |-> "", file |-> <<>>],
    [dir |-> "https://images", file |-> <<"image", "raw", "xz">>],
    [dir |-> "https://images", file |-> <<"debian", "qcow2">>],
    [dir |-> "https://images", file |-> <<"vm1", "img">>] }
EmptyURL == [dir |-> "", file |-> <<>>]

EmptyStatus ==
  [imagePhase |-> NoCondition, imageReady |-> NoCondition, ready |-> NoCondition,
   vmid |-> <<>>, diskPath |-> NoPath, addresses |-> <<>>, provisioned |-> FALSE]

NoMachine ==
  [exists |-> FALSE, deleting |-> FALSE, finalizers |-> {}, providerID |-> <<>>,
   status |-> EmptyStatus]

NoInterruption == [step |-> "none", taskID |-> 0]

\* a cluster resource that is not in the store, and one that was just created
NoCluster == [exists |-> FALSE, provisioned |-> FALSE, endpoint |-> ""]
NewCluster == [exists |-> TRUE, provisioned |-> FALSE, endpoint |-> "192.168.1.100:6443"]

\* no invocation of the cluster reconciler is running
ClusterIdle ==
  [pc |-> "idle", before |-> NoCluster, obj |-> NoCluster, result |-> "none", writes |-> 0]

\* two machine resources of one image URL and different VM names
PairNames == {"vm1", "vm2"}

\* both as they are created: no phase persisted, no task, no file written
NewPair ==
  [phase |-> [n \in PairNames |-> ""],
   task  |-> [n \in PairNames |-> "none"],
   files |-> {}]

\* the machine resources as they are created
NewMachines ==
  [exists : {TRUE}, deleting : {FALSE}, finalizers : {{}, {"other"}},
   providerID : {<<>>}, status : {EmptyStatus}]

\* the state when the manager starts: a machine resource with one of the
\* given image URLs and a cluster resource, each in one of the given states
InitWith(urls, machines, clusters) ==
  /\ spec \in [name : {"vm1"}, imageURL : urls]
  /\ store \in machines
  /\ cluster \in clusters
  /\ clusterRun = ClusterIdle
  /\ pair = NewPair
  /\ vms = [id \in VMIDs |-> "none"]
  /\ nextTask = 1
  /\ pc = "idle"
  /\ machine = NoMachine
  /\ fresh = FALSE
  /\ taskID = 0
  /\ vm = 0
  /\ i = 0
  /\ ret = "none"
  /\ calls = <<>>
  /\ result = "none"
  /\ entry = "none"
  /\ submitted = [k \in PipelineSteps |-> 0]
  /\ polledDone = {}
  /\ interrupted = NoInterruption

Init == InitWith(ImageURLs, NewMachines, {NoCluster})

\* image file names of every shape path.Base can return: compressed and not,
\* upper-case suffix, two suffixes, a compressed suffix only, no extension
ImageFileNames ==
  { <<"image", "raw", "xz">>, <<"debian", "qcow2">>, <<"vm1", "img">>,
    <<"image", "raw", "XZ">>, <<"image", "raw", "GZ">>, <<"image", "tar", "gz">>,
    <<"image", "gz">>, <<"image", "tar">>, <<"image", "qcow2", "bz2">>,
    <<"image", "img", "zip">>, <<"debian", "QCOW2">>, <<"image">>,
    <<"vm1", "raw", "xz">> }
ImageFileURLs == {[dir |-> "https://images", file |-> n] : n \in ImageFileNames}

\* the state after the resource was created with an image of any of these names
InitImages == InitWith(ImageFileURLs, NewMachines, {NoCluster})

\* the manager starts with requests for a machine and a cluster that may
\* not be in the store
InitManager == InitWith(ImageURLs, NewMachines \cup {NoMachine}, {NoCluster, NewCluster})

\* ---------------------------------------------------------------------
\* Helpers of the steps
\* ---------------------------------------------------------------------
\* a containsString that reports every string as present
containsStringAlways(slice, s) == TRUE

containsString(slice, s) == s \in slice

removeString(slice, s) == slice \ {s}

Log(op, ok) ==
  LET call == [op |-> op, ok |-> ok] IN
    calls' = IF calls # <<>> /\ calls[Len(calls)] = call THEN calls ELSE Append(calls, call)

\* return ctrl.Result{...}, err
Return(res) == pc' = "returned" /\ result' = res

\* outcome of a write to the store: the object is gone, the in-memory
\* resourceVersion is stale, or the outcome the store chooses
WriteOutcome(chosen) ==
  IF ~store.exists THEN "notfound"
  ELSE IF ~fresh THEN "conflict"
  ELSE chosen

\* meta.FindStatusCondition(...) != nil
HasCondition(c) == c.status # ""

\* lines 186-193: the phase and task id decoded from the ImagePhase condition
Decode(mach) ==
  IF HasCondition(mach.status.imagePhase)
    THEN Sscanf(mach.status.imagePhase.message)
    ELSE [phase |-> "", taskID |-> 0]

\* a dispatch that submits the step again whatever task id is recorded
DispatchIgnoringTaskID(mach) ==
  LET d == Decode(mach) IN
  CASE d.phase = "" -> "StartDownload"
    [] d.phase = "download" -> "WaitForDownload"
    [] d.phase = "extract" -> "StartExtraction"
    [] d.phase = "copy" -> "StartCopy"
    [] d.phase = "rename" -> "StartRename"
    [] d.phase = "resize" -> "StartResize"
    [] OTHER -> "returned"

\* a dispatch that starts the pipeline again when the marker records completion
DispatchRestartsWhenDone(mach) ==
  LET d == Decode(mach) IN
  CASE d.phase \in {"", "done"} -> "StartDownload"
    [] d.phase = "download" -> "WaitForDownload"
    [] d.phase = "extract" -> IF d.taskID = 0 THEN "StartExtraction" ELSE "WaitForExtraction"
    [] d.phase = "copy" -> IF d.taskID = 0 THEN "StartCopy" ELSE "WaitForCopy"
    [] d.phase = "rename" -> IF d.taskID = 0 THEN "StartRename" ELSE "WaitForRename"
    [] d.phase = "resize" -> IF d.taskID = 0 THEN "StartResize" ELSE "WaitForResize"
    [] OTHER -> "returned"

\* the step of the pipeline the decoded marker selects
Dispatch(mach) ==
  LET d == Decode(mach) IN
  CASE d.phase = "" -> "StartDownload"
    [] d.phase = "download" -> "WaitForDownload"
    [] d.phase = "extract" -> IF d.taskID = 0 THEN "StartExtraction" ELSE "WaitForExtraction"
    [] d.phase = "copy" -> IF d.taskID = 0 THEN "StartCopy" ELSE "WaitForCopy"
    [] d.phase = "rename" -> IF d.taskID = 0 THEN "StartRename" ELSE "WaitForRename"
    [] d.phase = "resize" -> IF d.taskID = 0 THEN "StartResize" ELSE "WaitForResize"
    [] OTHER -> "returned"

\* lines 163-193: after the finalizer is ensured
EnterPipeline(mach) ==
  IF spec.imageURL = EmptyURL
    THEN /\ Return("ok")
         /\ taskID' = 0
    ELSE /\ pc' = Dispatch(mach)
         /\ taskID' = Decode(mach).taskID
         /\ result' = IF Dispatch(mach) = "returned" THEN "ok" ELSE "none"

imageName == Base(spec.imageURL)

SetImagePhase(mach, status, reason, message) ==
  [mach EXCEPT !.status.imagePhase = Condition(status, reason, message)]

\* ---------------------------------------------------------------------
\* The driver and the environment
\* ---------------------------------------------------------------------
ResetLocals ==
  /\ pc' = "idle"
  /\ machine' = NoMachine
  /\ fresh' = FALSE
  /\ taskID' = 0
  /\ vm' = 0
  /\ i' = 0
  /\ ret' = "none"
  /\ calls' = <<>>
  /\ result' = "none"
  /\ entry' = "none"

\* the invocation has returned; the driver takes the outcome
Finish ==
  /\ pc = "returned"
  /\ ResetLocals
  /\ interrupted' = NoInterruption
  /\ UNCHANGED <<clusterVars, spec, submitted, polledDone, store, vms, nextTask>>

\* the controlling process crashes in the middle of an invocation
Crash ==
  /\ pc \notin {"idle", "returned"}
  /\ ResetLocals
  /\ interrupted' = [step |-> entry, taskID |-> taskID]
  /\ UNCHANGED <<clusterVars, spec, submitted, polledDone, store, vms, nextTask>>

\* a client requests the deletion of the resource; the store discards an
\* object that carries a deletion request and no finalizer
DeleteRequest ==
  /\ store.exists
  /\ ~store.deleting
  /\ store' = [store EXCEPT !.deleting = TRUE, !.exists = (store.finalizers # {})]
  /\ fresh' = FALSE
  /\ UNCHANGED <<clusterVars, spec, interrupted, entry, submitted, polledDone, vms, nextTask, pc, machine, taskID, vm, i, ret, calls, result>>

\* another writer updates the stored object while an invocation runs
ExternalUpdate ==
  /\ pc \notin {"idle", "returned"}
  /\ store.exists
  /\ fresh
  /\ fresh' = FALSE
  /\ UNCHANGED <<clusterVars, spec, interrupted, entry, submitted, polledDone, store, vms, nextTask, pc, machine, taskID, vm, i, ret, calls, result>>

\* ---------------------------------------------------------------------
\* Reconcile: fetch and dispatch (lines 80-193)
\* ---------------------------------------------------------------------
\* a deletion protocol that submits the removal of disk files whenever no VM is recorded
DeletionEntryAlwaysFiles(mach) ==
  IF mach.status.vmid # <<>> THEN "KillVirtualMachine" ELSE "RemoveFiles"

\* a deletion protocol that resumes the pipeline while no VM is recorded
DeletionEntryResumesPipeline(mach) ==
  IF mach.status.vmid # <<>> THEN "KillVirtualMachine" ELSE Dispatch(mach)

\* lines 91-150: the first step of the deletion protocol for the fetched machine
DeletionEntry(mach) ==
  IF mach.status.vmid # <<>> THEN "KillVirtualMachine"
  ELSE IF mach.status.diskPath # NoPath THEN "RemoveFiles"
  ELSE "RemoveFinalizer"

\* a fetch that reports a missing resource as an error
ReportNotFound(err) == "error"

\* client.IgnoreNotFound(err): a missing resource is not an error
IgnoreNotFound(err) == IF err = "notfound" THEN "ok" ELSE "error"

Get ==
  /\ pc = "idle"
  /\ UNCHANGED <<clusterVars, spec, interrupted, submitted, polledDone, store, vms, nextTask, vm, i, ret, calls>>
  /\ IF ~store.exists
       THEN /\ machine' = NoMachine
            /\ fresh' = FALSE
            /\ taskID' = 0
            /\ Return(IgnoreNotFound("notfound"))
       ELSE /\ machine' = store
            /\ fresh' = TRUE
            /\ IF store.deleting
                 THEN /\ taskID' = 0
                      /\ IF containsString(store.finalizers, FreeboxMachineFinalizer)
                           THEN pc' = DeletionEntry(store) /\ result' = "none"
                           ELSE Return("ok")
                 ELSE IF ~containsString(store.finalizers, FreeboxMachineFinalizer)
                   THEN pc' = "EnsureFinalizer" /\ result' = "none" /\ taskID' = 0
                   ELSE EnterPipeline(store)
  /\ entry' = pc'

\* an Ensure-finalizer step that ignores the error of the update
AbortOnUpdateErrorNever(out) == FALSE

\* lines 158-160: if err := r.Update(ctx, &machine); err != nil { return }
AbortOnUpdateError(out) == out # "ok"

\* lines 155-161, then 163-193
EnsureFinalizer ==
  /\ pc = "EnsureFinalizer"
  /\ \E chosen \in {"ok", "error"} :
       LET out == WriteOutcome(chosen)
           withFinalizer == [machine EXCEPT !.finalizers = @ \cup {FreeboxMachineFinalizer}]
       IN /\ Log("update", out = "ok")
          /\ store' = IF out = "ok"
                        THEN [store EXCEPT !.finalizers = withFinalizer.finalizers,
                                           !.providerID = withFinalizer.providerID]
                        ELSE store
          /\ machine' = IF out = "ok" THEN store' ELSE withFinalizer
          /\ IF AbortOnUpdateError(out)
               THEN Return("error") /\ taskID' = taskID
               ELSE EnterPipeline(machine')
          /\ entry' = pc'
  /\ UNCHANGED <<clusterVars, spec, interrupted, submitted, polledDone, vms, nextTask, fresh, vm, i, ret>>

\* a deletion protocol in which a failure of kill-vm ends the invocation
AfterKillVirtualMachineFatal(ok) == IF ok THEN "WaitForStop" ELSE "returned"

\* lines 95-98: the error of kill-vm is logged and the stop-wait loop follows
AfterKillVirtualMachine(ok) == "WaitForStop"

\* ---------------------------------------------------------------------
\* Deletion protocol (lines 86-153)
\* ---------------------------------------------------------------------
\* lines 93-98: a failure of kill is logged and ignored
KillVirtualMachine ==
  /\ pc = "KillVirtualMachine"
  /\ LET id == machine.status.vmid[1] IN
     \E ok \in BOOLEAN :
       /\ ok => vms[id] \in {"running", "stopping", "stopped"}
       /\ vms' = IF ok /\ vms[id] = "running" THEN [vms EXCEPT ![id] = "stopping"] ELSE vms
       /\ Log("kill-vm", ok)
       /\ pc' = AfterKillVirtualMachine(ok)
  /\ i' = 0
  /\ UNCHANGED <<clusterVars, spec, interrupted, entry, submitted, polledDone, store, nextTask, machine, fresh, taskID, vm, ret, result>>

\* a stop-wait loop that polls again after a poll that returned an error
StopWaitContinuesOnError(n, out) == out \in {"running", "error"} /\ n + 1 < MaxStopPolls

\* lines 102-116: the loop goes on to poll number n + 2 when poll number
\* n + 1 was answered, the VM is not stopped and fewer than 30 polls were made
StopWaitContinues(n, out) == out = "running" /\ n + 1 < MaxStopPolls

\* lines 100-116: one iteration of the stop-wait loop
WaitForStop ==
  /\ pc = "WaitForStop"
  /\ i < MaxStopPolls
  /\ LET id == machine.status.vmid[1] IN
     \E out \in {"error", "stopped", "running"} :
       /\ out = "stopped" => vms[id] \in {"stopping", "stopped"}
       /\ out = "running" => vms[id] \in {"running", "stopping"}
       /\ vms' = IF out = "stopped" THEN [vms EXCEPT ![id] = "stopped"] ELSE vms
       /\ Log("get-vm", out # "error")
       /\ IF StopWaitContinues(i, out)
            THEN /\ i' = i + 1
                 /\ pc' = "WaitForStop"
            ELSE /\ i' = 0
                 /\ pc' = "DeleteVirtualMachine"
  /\ UNCHANGED <<clusterVars, spec, interrupted, entry, submitted, polledDone, store, nextTask, machine, fresh, taskID, vm, ret, result>>

\* a deletion protocol that goes on after a failed delete-vm
AfterDeleteVirtualMachineIgnoringError(mach, ok) ==
  IF mach.status.diskPath # NoPath THEN "RemoveFiles" ELSE "RemoveFinalizer"

\* lines 119-128: a failure of delete-vm ends the invocation
AfterDeleteVirtualMachine(mach, ok) ==
  IF ~ok THEN "returned"
  ELSE IF mach.status.diskPath # NoPath THEN "RemoveFiles"
  ELSE "RemoveFinalizer"

\* lines 118-124: the appliance deletes only a stopped VM
DeleteVirtualMachine ==
  /\ pc = "DeleteVirtualMachine"
  /\ LET id == machine.status.vmid[1] IN
     \E ok \in BOOLEAN :
       /\ ok => vms[id] = "stopped"
       /\ Log("delete-vm", ok)
       /\ vms' = IF ok THEN [vms EXCEPT ![id] = "deleted"] ELSE vms
       /\ pc' = AfterDeleteVirtualMachine(machine, ok)
       /\ result' = IF pc' = "returned" THEN "error" ELSE "none"
  /\ UNCHANGED <<clusterVars, spec, interrupted, entry, submitted, polledDone, store, nextTask, machine, fresh, taskID, vm, i, ret>>

\* lines 126-144
RemoveFiles ==
  /\ pc = "RemoveFiles"
  /\ \E ok \in BOOLEAN :
       /\ Log("remove-files", ok)
       /\ IF ok THEN pc' = "RemoveFinalizer" /\ result' = "none"
                ELSE Return("error")
  /\ UNCHANGED <<clusterVars, spec, interrupted, entry, submitted, polledDone, store, vms, nextTask, machine, fresh, taskID, vm, i, ret>>

\* lines 146-152
RemoveFinalizer ==
  /\ pc = "RemoveFinalizer"
  /\ \E chosen \in {"ok", "error"} :
       LET out == WriteOutcome(chosen)
           without == [machine EXCEPT !.finalizers = removeString(@, FreeboxMachineFinalizer)]
       IN /\ Log("update", out = "ok")
          /\ machine' = without
          /\ IF out = "ok"
               THEN /\ store' = [store EXCEPT !.finalizers = without.finalizers,
                                              !.providerID = without.providerID,
                                              !.exists = (without.finalizers # {})]
                    /\ Return("ok")
               ELSE /\ store' = store
                    /\ Return("error")
  /\ UNCHANGED <<clusterVars, spec, interrupted, entry, submitted, polledDone, vms, nextTask, fresh, taskID, vm, i, ret>>

\* ---------------------------------------------------------------------
\* Image pipeline (lines 195-537)
\* ---------------------------------------------------------------------
\* a submission to the appliance that returns a task id
SubmitTask(step, ok) ==
  /\ ok => nextTask <= MaxTasks
  /\ nextTask' = IF ok THEN nextTask + 1 ELSE nextTask
  /\ submitted' = IF ok THEN [submitted EXCEPT ![step] = @ + 1] ELSE submitted

\* a status query of a task of the appliance
PollTask(step, out) ==
  polledDone' = IF out = "done" THEN polledDone \cup {step} ELSE polledDone

\* `_ = r.Status().Update(ctx, &machine)` followed by the return of the step
PersistPhase ==
  /\ pc = "PersistPhase"
  /\ \E chosen \in {"ok", "error"} :
       LET out == WriteOutcome(chosen) IN
         /\ Log("status-update", out = "ok")
         /\ store' = IF out = "ok" THEN [store EXCEPT !.status = machine.status] ELSE store
  /\ Return(ret)
  /\ UNCHANGED <<clusterVars, spec, interrupted, entry, submitted, polledDone, vms, nextTask, machine, fresh, taskID, vm, i, ret>>

\* a step that asks for a requeue whatever outcome it was given
ThenPersistAlwaysRequeue(mach, outcome) ==
  /\ machine' = mach
  /\ pc' = "PersistPhase"
  /\ ret' = "requeue"
  /\ result' = "none"

\* a step that sets the progress marker in memory and runs the step it
\* selects in the same invocation
ThenContinue(mach, outcome) ==
  /\ machine' = mach
  /\ pc' = Dispatch(mach)
  /\ ret' = ret
  /\ result' = "none"

\* the step sets the progress marker in memory and goes on to persist it
ThenPersist(mach, outcome) ==
  /\ machine' = mach
  /\ pc' = "PersistPhase"
  /\ ret' = outcome
  /\ result' = "none"

\* a step that returns an error whatever outcome it was given
ThenReturnError(res) ==
  /\ Return("error")
  /\ UNCHANGED <<machine, ret>>

\* the step returns without touching the resource
ThenReturn(res) ==
  /\ Return(res)
  /\ UNCHANGED <<machine, ret>>

\* lines 198-222
StartDownload ==
  /\ pc = "StartDownload"
  /\ \E ok \in BOOLEAN :
       /\ SubmitTask("download", ok)
       /\ Log("submit-download", ok)
       /\ IF ok
            THEN ThenPersist(SetImagePhase(machine, "False", "Downloading",
                                           PhaseMessage("download", nextTask)),
                             "requeue")
            ELSE ThenReturn("error")
  /\ UNCHANGED <<clusterVars, spec, interrupted, entry, polledDone, store, vms, fresh, taskID, vm, i>>

\* lines 227-272
WaitForDownload ==
  /\ pc = "WaitForDownload"
  /\ \E out \in {"error", "done", "failed", "running"} :
       /\ Log("poll-download", out # "error")
       /\ PollTask("download", out)
       /\ CASE out = "error" -> ThenReturn("error")
            [] out = "running" -> ThenReturn("requeue")
            [] out = "failed" ->
                 ThenPersist(SetImagePhase(machine, "False", "DownloadFailed",
                                           TextMessage("Image download failed")), "error")
            [] out = "done" ->
                 IF isCompressedFile(imageName)
                   THEN ThenPersist(SetImagePhase(machine, "False", "Extracting",
                          PhaseMessagePaths("extract", 0, downloadPath(imageName),
                                            Join(VMStoragePath, <<>>))), "requeue")
                   ELSE ThenPersist(SetImagePhase(machine, "False", "Copying",
                          PhaseMessagePaths("copy", 0, downloadPath(imageName),
                                            finalImagePath(spec.name, imageName))), "requeue")
  /\ UNCHANGED <<clusterVars, spec, interrupted, entry, submitted, store, vms, nextTask, fresh, taskID, vm, i>>

\* lines 280-301
StartExtraction ==
  /\ pc = "StartExtraction"
  /\ \E ok \in BOOLEAN :
       /\ SubmitTask("extract", ok)
       /\ Log("extract", ok)
       /\ IF ok
            THEN ThenPersist(SetImagePhase(machine, "False", "Extracting",
                                           PhaseMessage("extract", nextTask)), "requeue")
            ELSE ThenReturn("error")
  /\ UNCHANGED <<clusterVars, spec, interrupted, entry, polledDone, store, vms, fresh, taskID, vm, i>>

\* a placement step that never asks for the rename
AfterPlacementAlwaysResize(mach, outputPath) ==
  SetImagePhase(mach, "False", "Resizing", PhaseMessage("resize", 0))

\* a placement step that asks for the rename whatever the output path is
AfterPlacementAlwaysRename(mach, outputPath) ==
  SetImagePhase(mach, "False", "Renaming",
    PhaseMessagePaths("rename", 0, outputPath, finalImagePath(spec.name, imageName)))

\* the marker persisted when extract or copy is done (lines 312-334, 386-409)
AfterPlacement(mach, outputPath) ==
  IF outputPath # finalImagePath(spec.name, imageName)
    THEN SetImagePhase(mach, "False", "Renaming",
           PhaseMessagePaths("rename", 0, outputPath, finalImagePath(spec.name, imageName)))
    ELSE SetImagePhase(mach, "False", "Resizing", PhaseMessage("resize", 0))

\* lines 303-347
WaitForExtraction ==
  /\ pc = "WaitForExtraction"
  /\ \E out \in {"error", "done", "failed", "running"} :
       /\ Log("poll-filesystem-task", out # "error")
       /\ PollTask("extract", out)
       /\ CASE out = "error" -> ThenReturn("error")
            [] out = "running" -> ThenReturn("requeue")
            [] out = "failed" ->
                 ThenPersist(SetImagePhase(machine, "False", "ExtractionFailed",
                                           TextMessage("Image extraction failed")), "error")
            [] out = "done" ->
                 ThenPersist(AfterPlacement(machine,
                   Join(VMStoragePath, removeCompressionExtension(imageName))), "requeue")
  /\ UNCHANGED <<clusterVars, spec, interrupted, entry, submitted, store, vms, nextTask, fresh, taskID, vm, i>>

\* lines 356-375
StartCopy ==
  /\ pc = "StartCopy"
  /\ \E ok \in BOOLEAN :
       /\ SubmitTask("copy", ok)
       /\ Log("copy", ok)
       /\ IF ok
            THEN ThenPersist(SetImagePhase(machine, "False", "Copying",
                                           PhaseMessage("copy", nextTask)), "requeue")
            ELSE ThenReturn("error")
  /\ UNCHANGED <<clusterVars, spec, interrupted, entry, polledDone, store, vms, fresh, taskID, vm, i>>

\* lines 377-422
WaitForCopy ==
  /\ pc = "WaitForCopy"
  /\ \E out \in {"error", "done", "failed", "running"} :
       /\ Log("poll-filesystem-task", out # "error")
       /\ PollTask("copy", out)
       /\ CASE out = "error" -> ThenReturn("error")
            [] out = "running" -> ThenReturn("requeue")
            [] out = "failed" ->
                 ThenPersist(SetImagePhase(machine, "False", "CopyFailed",
                                           TextMessage("Image copy failed")), "error")
            [] out = "done" ->
                 ThenPersist(AfterPlacement(machine, Join(VMStoragePath, imageName)), "requeue")
  /\ UNCHANGED <<clusterVars, spec, interrupted, entry, submitted, store, vms, nextTask, fresh, taskID, vm, i>>

\* lines 428-457
StartRename ==
  /\ pc = "StartRename"
  /\ LET paths == RenamePaths(machine.status.imagePhase.message) IN
     \E ok \in BOOLEAN :
       /\ SubmitTask("rename", ok)
       /\ Log("move", ok)
       /\ IF ok
            THEN ThenPersist(SetImagePhase(machine, "False", "Renaming",
                   PhaseMessagePaths("rename", nextTask, paths.src, paths.dst)), "requeue")
            ELSE ThenReturn("error")
  /\ UNCHANGED <<clusterVars, spec, interrupted, entry, polledDone, store, vms, fresh, taskID, vm, i>>

\* lines 459-487
WaitForRename ==
  /\ pc = "WaitForRename"
  /\ \E out \in {"error", "done", "failed", "running"} :
       /\ Log("poll-filesystem-task", out # "error")
       /\ PollTask("rename", out)
       /\ CASE out = "error" -> ThenReturn("error")
            [] out = "running" -> ThenReturn("requeue")
            [] out = "failed" ->
                 ThenPersist(SetImagePhase(machine, "False", "RenameFailed",
                                           TextMessage("Image rename failed")), "error")
            [] out = "done" ->
                 ThenPersist(SetImagePhase(machine, "False", "Resizing",
                                           PhaseMessage("resize", 0)), "requeue")
  /\ UNCHANGED <<clusterVars, spec, interrupted, entry, submitted, store, vms, nextTask, fresh, taskID, vm, i>>

\* lines 496-518
StartResize ==
  /\ pc = "StartResize"
  /\ \E ok \in BOOLEAN :
       /\ SubmitTask("resize", ok)
       /\ Log("resize-disk", ok)
       /\ IF ok
            THEN ThenPersist(SetImagePhase(machine, "False", "Resizing",
                                           PhaseMessage("resize", nextTask)), "requeue")
            ELSE ThenReturn("error")
  /\ UNCHANGED <<clusterVars, spec, interrupted, entry, polledDone, store, vms, fresh, taskID, vm, i>>

\* an image-ready step that also records the pipeline as completed
SetImageReadyAndCompleted(mach) ==
  [mach EXCEPT !.status.imageReady =
                 Condition("True", "ImageReady", TextMessage("Image ready")),
               !.status.imagePhase = Condition("True", "Completed", DoneMessage)]

\* lines 539-546: the ImageReady condition is set on the in-memory machine
SetImageReady(mach) ==
  [mach EXCEPT !.status.imageReady =
                 Condition("True", "ImageReady", TextMessage("Image ready"))]

\* lines 520-547 and 811-814
WaitForResize ==
  /\ pc = "WaitForResize"
  /\ \E out \in {"error", "done", "failed", "running"} :
       /\ Log("poll-resize-task", out # "error")
       /\ PollTask("resize", out)
       /\ CASE out = "error" -> ThenReturn("error")
            [] out = "running" -> ThenReturn("requeue")
            [] out = "failed" ->
                 ThenPersist(SetImagePhase(machine, "False", "ResizeFailed",
                                           TextMessage("Disk resize failed")), "error")
            [] out = "done" ->
                 /\ machine' = SetImageReady(machine)
                 /\ pc' = "PersistImageReady"
                 /\ UNCHANGED <<ret, result>>
  /\ UNCHANGED <<clusterVars, spec, interrupted, entry, submitted, store, vms, nextTask, fresh, taskID, vm, i>>

\* ---------------------------------------------------------------------
\* VM lifecycle and network discovery (lines 548-810)
\* ---------------------------------------------------------------------
\* a guard that is missing: creation always follows the image-ready write
IdempotencyGuardMissing(mach) == "GetBootstrapData"

\* a guard that keys on the discovered addresses instead of the VM identifier
IdempotencyGuardOnAddresses(mach) ==
  IF Len(mach.status.addresses) > 0 THEN "returned" ELSE "GetBootstrapData"

\* lines 559-568: the step that follows the image-ready write
IdempotencyGuard(mach) ==
  IF mach.status.vmid # <<>>
    THEN IF Len(mach.status.addresses) > 0 THEN "returned" ELSE "GetVirtualMachine"
    ELSE "GetBootstrapData"

\* lines 548-568: a conflict of the image-ready write is tolerated
PersistImageReady ==
  /\ pc = "PersistImageReady"
  /\ \E chosen \in {"ok", "error"} :
       LET out == WriteOutcome(chosen) IN
         /\ Log("status-update", out = "ok")
         /\ store' = IF out = "ok" THEN [store EXCEPT !.status = machine.status] ELSE store
         /\ IF out \in {"ok", "conflict"}
              THEN /\ pc' = IdempotencyGuard(machine)
                   /\ result' = IF IdempotencyGuard(machine) = "returned" THEN "ok" ELSE "none"
              ELSE Return("error")
  /\ UNCHANGED <<clusterVars, spec, interrupted, entry, submitted, polledDone, vms, nextTask, machine, fresh, taskID, vm, i, ret>>

\* lines 570-575
GetVirtualMachine ==
  /\ pc = "GetVirtualMachine"
  /\ \E ok \in BOOLEAN :
       /\ Log("get-vm", ok)
       /\ IF ok THEN pc' = "FindExistingVMAddress" /\ result' = "none"
                ELSE Return("error")
  /\ UNCHANGED <<clusterVars, spec, interrupted, entry, submitted, polledDone, store, vms, nextTask, machine, fresh, taskID, vm, i, ret>>

\* what the LAN browser answers for the MAC address of the VM
LanOutcomes == {"error", "nohost", "noip", "found"}
\* the IPv4 addresses of the matching host
HostAddresses == <<"192.168.1.10">>

\* lines 577-622: discovery for a VM created by an earlier invocation
FindExistingVMAddress ==
  /\ pc = "FindExistingVMAddress"
  /\ \E out \in LanOutcomes :
       /\ Log("list-lan-hosts", out # "error")
       /\ IF out = "found"
            THEN /\ machine' = [machine EXCEPT !.status.addresses = HostAddresses]
                 /\ pc' = "PersistAddresses"
                 /\ result' = "none"
            ELSE /\ machine' = machine
                 /\ Return("requeue")
  /\ UNCHANGED <<clusterVars, spec, interrupted, entry, submitted, polledDone, store, vms, nextTask, fresh, taskID, vm, i, ret>>

\* lines 607-611
PersistAddresses ==
  /\ pc = "PersistAddresses"
  /\ \E chosen \in {"ok", "error"} :
       LET out == WriteOutcome(chosen) IN
         /\ Log("status-update", out = "ok")
         /\ store' = IF out = "ok" THEN [store EXCEPT !.status = machine.status] ELSE store
         /\ Return(IF out = "ok" THEN "ok" ELSE "error")
  /\ UNCHANGED <<clusterVars, spec, interrupted, entry, submitted, polledDone, vms, nextTask, machine, fresh, taskID, vm, i, ret>>

\* the calls with one more call (a call identical to the last one is recorded once)
AppendCall(cs, op, ok) ==
  LET call == [op |-> op, ok |-> ok] IN
    IF cs # <<>> /\ cs[Len(cs)] = call THEN cs ELSE Append(cs, call)

\* the reads of the bootstrap lookup for each of its outcomes: the owner
\* Machine (629) and, when it names a secret, the secret (656)
BootstrapReads(out) ==
  CASE out = "owner-error" -> AppendCall(calls, "get-owner-machine", FALSE)
    [] out \in {"no-owner", "no-secret-name"} -> AppendCall(calls, "get-owner-machine", TRUE)
    [] out = "secret-error" ->
         AppendCall(AppendCall(calls, "get-owner-machine", TRUE), "get-bootstrap-secret", FALSE)
    [] out \in {"no-value", "ok"} ->
         AppendCall(AppendCall(calls, "get-owner-machine", TRUE), "get-bootstrap-secret", TRUE)

\* lines 625-668: owner Machine, bootstrap secret reference, secret, payload
GetBootstrapData ==
  /\ pc = "GetBootstrapData"
  /\ \E out \in {"owner-error", "no-owner", "no-secret-name", "secret-error", "no-value", "ok"} :
       /\ calls' = BootstrapReads(out)
       /\ CASE out \in {"owner-error", "secret-error", "no-value"} -> Return("error")
            [] out \in {"no-owner", "no-secret-name"} -> Return("requeue")
            [] out = "ok" -> pc' = "CreateVirtualMachine" /\ result' = "none"
  /\ UNCHANGED <<clusterVars, spec, interrupted, entry, submitted, polledDone, store, vms, nextTask, machine, fresh, taskID, vm, i, ret>>

\* a record of the VM that leaves the disk path out
RecordVMWithoutDiskPath(mach, id) ==
  [mach EXCEPT !.status.vmid = <<id>>]

\* lines 712-715: the VM id and the disk path are set on the in-memory machine
RecordVM(mach, id) ==
  [mach EXCEPT !.status.vmid = <<id>>,
               !.status.diskPath = finalImagePath(spec.name, imageName)]

\* a provider-ID step without the emptiness check
NeedsProviderIDAlways(mach) == TRUE

\* line 702: if machine.Spec.ProviderID == ""
NeedsProviderID(mach) == mach.providerID = <<>>

\* lines 691-697, then 702 or 712-715
CreateVirtualMachine ==
  /\ pc = "CreateVirtualMachine"
  /\ \E ok \in BOOLEAN :
       /\ ok => \E id \in VMIDs : vms[id] = "none"
       /\ Log("create-vm", ok)
       /\ IF ok
            THEN LET id == CHOOSE n \in VMIDs :
                             vms[n] = "none" /\ \A k \in VMIDs : vms[k] = "none" => n <= k
                 IN /\ vms' = [vms EXCEPT ![id] = "stopped"]
                    /\ vm' = id
                    /\ result' = "none"
                    /\ IF NeedsProviderID(machine)
                         THEN pc' = "SetProviderID" /\ machine' = machine
                         ELSE pc' = "StartVirtualMachine" /\ machine' = RecordVM(machine, id)
            ELSE /\ Return("error")
                 /\ UNCHANGED <<vms, vm, machine>>
  /\ UNCHANGED <<clusterVars, spec, interrupted, entry, submitted, polledDone, store, nextTask, fresh, taskID, i, ret>>

\* lines 703-715: the update answers with the stored object, status included
SetProviderID ==
  /\ pc = "SetProviderID"
  /\ \E chosen \in {"ok", "error"} :
       LET out == WriteOutcome(chosen)
           withID == [machine EXCEPT !.providerID = FormatProviderID(vm)]
       IN /\ Log("update", out = "ok")
          /\ IF out = "ok"
               THEN /\ store' = [store EXCEPT !.finalizers = withID.finalizers,
                                              !.providerID = withID.providerID]
                    /\ machine' = RecordVM(store', vm)
                    /\ pc' = "StartVirtualMachine"
                    /\ result' = "none"
               ELSE /\ store' = store
                    /\ machine' = withID
                    /\ Return("error")
  /\ UNCHANGED <<clusterVars, spec, interrupted, entry, submitted, polledDone, vms, nextTask, fresh, taskID, vm, i, ret>>

\* lines 717-723
StartVirtualMachine ==
  /\ pc = "StartVirtualMachine"
  /\ \E ok \in BOOLEAN :
       /\ Log("start-vm", ok)
       /\ IF ok
            THEN /\ vms' = [vms EXCEPT ![vm] = "running"]
                 /\ pc' = "FindVMAddress"
                 /\ result' = "none"
            ELSE /\ vms' = vms
                 /\ Return("error")
  /\ UNCHANGED <<clusterVars, spec, interrupted, entry, submitted, polledDone, store, nextTask, machine, fresh, taskID, vm, i, ret>>

\* lines 780-800
MarkReady(mach) ==
  [mach EXCEPT !.status.provisioned = TRUE,
               !.status.ready = Condition("True", "InfrastructureReady",
                                          TextMessage("Freebox machine infrastructure is ready")),
               !.status.imagePhase = Condition("True", "Completed", DoneMessage)]

\* lines 725-800: discovery in the invocation that started the VM
FindVMAddress ==
  /\ pc = "FindVMAddress"
  /\ \E out \in LanOutcomes :
       /\ Log("list-lan-hosts", out # "error")
       /\ CASE out = "error" ->
                 machine' = MarkReady(machine) /\ pc' = "PersistReady"
            [] out = "found" ->
                 /\ machine' = MarkReady([machine EXCEPT !.status.addresses = HostAddresses])
                 /\ pc' = "PersistReady"
            [] out \in {"nohost", "noip"} ->
                 machine' = RecordVM(machine, vm) /\ pc' = "PersistVM"
  /\ UNCHANGED <<clusterVars, spec, interrupted, entry, submitted, polledDone, store, vms, nextTask, fresh, taskID, vm, i, ret, result>>

\* lines 756-762 and 770-776
PersistVM ==
  /\ pc = "PersistVM"
  /\ \E chosen \in {"ok", "error"} :
       LET out == WriteOutcome(chosen) IN
         /\ Log("status-update", out = "ok")
         /\ store' = IF out = "ok" THEN [store EXCEPT !.status = machine.status] ELSE store
         /\ Return(IF out = "ok" THEN "requeue" ELSE "error")
  /\ UNCHANGED <<clusterVars, spec, interrupted, entry, submitted, polledDone, vms, nextTask, machine, fresh, taskID, vm, i, ret>>

\* lines 801-810: a conflict of the final write is tolerated
PersistReady ==
  /\ pc = "PersistReady"
  /\ \E chosen \in {"ok", "error"} :
       LET out == WriteOutcome(chosen) IN
         /\ Log("status-update", out = "ok")
         /\ store' = IF out = "ok" THEN [store EXCEPT !.status = machine.status] ELSE store
         /\ Return(IF out \in {"ok", "conflict"} THEN "ok" ELSE "error")
  /\ UNCHANGED <<clusterVars, spec, interrupted, entry, submitted, polledDone, vms, nextTask, machine, fresh, taskID, vm, i, ret>>

\* ---------------------------------------------------------------------
\* FreeboxClusterReconciler.Reconcile
\* ---------------------------------------------------------------------
\* lines 56-111: the fetch; a missing cluster ends the invocation before the
\* patch helper is set up, otherwise provisioned is set in memory and the
\* deferred patch is left to run
\* a reconciler that leaves initialization.provisioned as it found it
LeaveUnprovisioned(c) == c

\* lines 93-109: initialization.provisioned is true on the in-memory object
MarkProvisioned(c) == [c EXCEPT !.provisioned = TRUE]

\* patchHelper.Patch: the fields that differ between the fetched and the
\* in-memory object are written on the stored object
ApplyPatch(stored, before, obj) ==
  [stored EXCEPT !.provisioned = IF obj.provisioned # before.provisioned
                                   THEN obj.provisioned ELSE @,
                 !.endpoint = IF obj.endpoint # before.endpoint THEN obj.endpoint ELSE @]

ClusterGet ==
  /\ clusterRun.pc = "idle"
  /\ clusterRun' =
       IF ~cluster.exists
         THEN [ClusterIdle EXCEPT !.pc = "returned", !.result = "ok"]
         ELSE [pc |-> "Patch", before |-> cluster,
               obj |-> MarkProvisioned(cluster),
               result |-> "none", writes |-> 0]
  /\ UNCHANGED <<cluster, pair, spec, store, vms, nextTask, pc, machine, fresh, taskID, vm, i, ret,
                 calls, result, entry, submitted, polledDone, interrupted>>

\* lines 83-91: the deferred patch writes the difference between the fetched
\* and the in-memory object; its error becomes the error of the invocation
ClusterPatch ==
  /\ clusterRun.pc = "Patch"
  /\ \E chosen \in {"ok", "error"} :
       LET out == IF ~cluster.exists THEN "notfound" ELSE chosen IN
         IF clusterRun.obj # clusterRun.before
           THEN /\ cluster' = IF out = "ok"
                                THEN ApplyPatch(cluster, clusterRun.before, clusterRun.obj)
                                ELSE cluster
                /\ clusterRun' = [clusterRun EXCEPT !.pc = "returned",
                                                    !.result = IF out = "ok" THEN "ok" ELSE "error",
                                                    !.writes = @ + 1]
           ELSE /\ cluster' = cluster
                /\ clusterRun' = [clusterRun EXCEPT !.pc = "returned", !.result = "ok"]
  /\ UNCHANGED <<pair, spec, store, vms, nextTask, pc, machine, fresh, taskID, vm, i, ret,
                 calls, result, entry, submitted, polledDone, interrupted>>

\* the invocation has returned; the driver takes the outcome
ClusterFinish ==
  /\ clusterRun.pc = "returned"
  /\ clusterRun' = ClusterIdle
  /\ UNCHANGED <<cluster, pair, spec, store, vms, nextTask, pc, machine, fresh, taskID, vm, i, ret,
                 calls, result, entry, submitted, polledDone, interrupted>>

\* a client deletes the cluster resource, which carries no finalizer
ClusterDelete ==
  /\ cluster.exists
  /\ cluster' = NoCluster
  /\ UNCHANGED <<clusterRun, pair, spec, store, vms, nextTask, pc, machine, fresh, taskID, vm, i, ret,
                 calls, result, entry, submitted, polledDone, interrupted>>

ClusterReconcile ==
  \/ ClusterGet
  \/ ClusterPatch
  \/ ClusterFinish

\* ---------------------------------------------------------------------
\* Specifications
\* ---------------------------------------------------------------------
Reconcile ==
  \/ Get
  \/ EnsureFinalizer
  \/ KillVirtualMachine
  \/ WaitForStop
  \/ DeleteVirtualMachine
  \/ RemoveFiles
  \/ RemoveFinalizer
  \/ StartDownload
  \/ WaitForDownload
  \/ StartExtraction
  \/ WaitForExtraction
  \/ StartCopy
  \/ WaitForCopy
  \/ StartRename
  \/ WaitForRename
  \/ StartResize
  \/ WaitForResize
  \/ PersistPhase
  \/ PersistImageReady
  \/ GetVirtualMachine
  \/ FindExistingVMAddress
  \/ PersistAddresses
  \/ GetBootstrapData
  \/ CreateVirtualMachine
  \/ SetProviderID
  \/ StartVirtualMachine
  \/ FindVMAddress
  \/ PersistVM
  \/ PersistReady
  \/ Finish

\* the steps of an invocation for a resource that is not being deleted
Provision ==
  \/ Get
  \/ EnsureFinalizer
  \/ StartDownload
  \/ WaitForDownload
  \/ StartExtraction
  \/ WaitForExtraction
  \/ StartCopy
  \/ WaitForCopy
  \/ StartRename
  \/ WaitForRename
  \/ StartResize
  \/ WaitForResize
  \/ PersistPhase
  \/ PersistImageReady
  \/ GetVirtualMachine
  \/ FindExistingVMAddress
  \/ PersistAddresses
  \/ GetBootstrapData
  \/ CreateVirtualMachine
  \/ SetProviderID
  \/ StartVirtualMachine
  \/ FindVMAddress
  \/ PersistVM
  \/ PersistReady
  \/ Finish

NextNoCrash ==
  \/ Reconcile
  \/ DeleteRequest
  \/ ExternalUpdate

Next ==
  \/ NextNoCrash
  \/ Crash

\* every behaviour: crashes, deletion requests and concurrent writers included
Spec == Init /\ [][Next]_vars

\* the behaviours in which the controlling process never crashes
SpecNoCrash == Init /\ [][NextNoCrash]_vars

\* provisioning of a resource with any image file name; no deletion request,
\* no concurrent writer, no crash
SpecImages == InitImages /\ [][Provision]_vars

\* the remote call or the write of the step is accepted: an operation on an
\* object that exists is not refused for ever
KillAccepted == KillVirtualMachine /\ calls'[Len(calls')].ok
StopObserved == WaitForStop /\ vms'[machine.status.vmid[1]] = "stopped"
DeleteAccepted == DeleteVirtualMachine /\ pc' # "returned"
RemoveFilesAccepted == RemoveFiles /\ pc' # "returned"
RemoveFinalizerAccepted == RemoveFinalizer /\ result' = "ok"

\* the driver re-invokes Reconcile for ever and every step of an invocation
\* is taken; the appliance and the store accept an operation that can succeed
DeletionFairness ==
  /\ WF_vars(Reconcile)
  /\ SF_vars(KillAccepted)
  /\ SF_vars(StopObserved)
  /\ SF_vars(DeleteAccepted)
  /\ SF_vars(RemoveFilesAccepted)
  /\ SF_vars(RemoveFinalizerAccepted)

\* the behaviours without crash under fair re-invocation
SpecFair == Init /\ [][NextNoCrash]_vars /\ DeletionFairness

\* every remote call and every write of the step is accepted, no task of
\* the appliance is reported failed and the bootstrap data is available
AllSucceed ==
  /\ \A k \in 1..Len(calls') : calls'[k].ok
  /\ machine'.status.imagePhase.reason \notin
       {"DownloadFailed", "ExtractionFailed", "CopyFailed", "RenameFailed", "ResizeFailed"}
  /\ pc = "GetBootstrapData" => pc' = "CreateVirtualMachine"

NextAllSucceed ==
  \/ Get /\ AllSucceed
  \/ EnsureFinalizer /\ AllSucceed
  \/ StartDownload /\ AllSucceed
  \/ WaitForDownload /\ AllSucceed
  \/ StartExtraction /\ AllSucceed
  \/ WaitForExtraction /\ AllSucceed
  \/ StartCopy /\ AllSucceed
  \/ WaitForCopy /\ AllSucceed
  \/ StartRename /\ AllSucceed
  \/ WaitForRename /\ AllSucceed
  \/ StartResize /\ AllSucceed
  \/ WaitForResize /\ AllSucceed
  \/ PersistPhase /\ AllSucceed
  \/ PersistImageReady /\ AllSucceed
  \/ GetVirtualMachine /\ AllSucceed
  \/ FindExistingVMAddress /\ AllSucceed
  \/ PersistAddresses /\ AllSucceed
  \/ GetBootstrapData /\ AllSucceed
  \/ CreateVirtualMachine /\ AllSucceed
  \/ SetProviderID /\ AllSucceed
  \/ StartVirtualMachine /\ AllSucceed
  \/ FindVMAddress /\ AllSucceed
  \/ PersistVM /\ AllSucceed
  \/ PersistReady /\ AllSucceed
  \/ Finish /\ AllSucceed

\* the status query of a task answers that the task is done
TaskDone ==
  /\ WaitForDownload \/ WaitForExtraction \/ WaitForCopy \/ WaitForRename \/ WaitForResize
  /\ AllSucceed
  /\ pc' \in {"PersistPhase", "PersistImageReady"}

\* the LAN inventory lists the VM of an earlier invocation with an IPv4 address
HostFound == FindExistingVMAddress /\ pc' = "PersistAddresses"

\* the driver re-invokes Reconcile for ever and every step of an invocation
\* is taken; a task of the appliance finishes and the started VM shows up in
\* the LAN inventory
ProvisionFairness ==
  /\ WF_vars(NextAllSucceed)
  /\ SF_vars(TaskDone)
  /\ SF_vars(HostFound)

\* provisioning in which nothing fails, under fair re-invocation
SpecAllSucceed == Init /\ [][NextAllSucceed]_vars /\ ProvisionFairness

\* the two reconcilers of the manager, with nothing failing on the appliance
NextManager ==
  \/ NextAllSucceed
  \/ ClusterReconcile
  \/ ClusterDelete

\* the manager serving requests for a machine and a cluster that may not exist
SpecManager == InitManager /\ [][NextManager]_vars

TypeOK ==
  /\ clusterRun.pc \in {"idle", "Patch", "returned"}
  /\ clusterRun.writes \in 0..1
  /\ pc \in {"idle", "returned", "EnsureFinalizer", "KillVirtualMachine", "WaitForStop",
             "DeleteVirtualMachine", "RemoveFiles", "RemoveFinalizer", "StartDownload",
             "WaitForDownload", "StartExtraction", "WaitForExtraction", "StartCopy",
             "WaitForCopy", "StartRename", "WaitForRename", "StartResize", "WaitForResize",
             "PersistPhase", "PersistImageReady", "GetVirtualMachine",
             "FindExistingVMAddress", "PersistAddresses", "GetBootstrapData",
             "CreateVirtualMachine", "SetProviderID", "StartVirtualMachine",
             "FindVMAddress", "PersistVM", "PersistReady"}
  /\ result \in {"none", "ok", "requeue", "error"}
  /\ (pc = "returned") <=> (result # "none")
  /\ i \in 0..MaxStopPolls
  /\ submitted \in [PipelineSteps -> 0..MaxTasks]
  /\ polledDone \subseteq PipelineSteps
  /\ \A id \in VMIDs : vms[id] \in {"none", "stopped", "running", "stopping", "deleted"}

\* ---------------------------------------------------------------------
\* Properties
\* ---------------------------------------------------------------------
\* the cleanup marker is on the resource
HasMarker(mach) == FreeboxMachineFinalizer \in mach.finalizers
Created == {id \in VMIDs : vms[id] # "none"}
LastCall == calls[Len(calls)]
Issued(op) == \E k \in 1..Len(calls) : calls[k].op = op

\* the calls that provision something on the appliance
ProvisioningOps ==
  {"submit-download", "extract", "copy", "move", "resize-disk", "create-vm", "start-vm"}
\* the positions at which the next step issues a provisioning call
ProvisioningSteps ==
  {"StartDownload", "StartExtraction", "StartCopy", "StartRename", "StartResize",
   "CreateVirtualMachine", "StartVirtualMachine"}
DeletionSteps ==
  {"KillVirtualMachine", "WaitForStop", "DeleteVirtualMachine", "RemoveFiles",
   "RemoveFinalizer"}

\* C1: over the whole lifetime of the machine resource create-vm succeeds on
\* the appliance at most once.
C1_CreateAtMostOnce == Cardinality(Created) <= 1

\* C2: once a VM identifier is persisted, no invocation reaches the creation
\* code (bootstrap lookup, create-vm): the idempotency guard returns before it.
C2_NoCreateOnceVMIDPersisted ==
  store.status.vmid # <<>> => pc \notin {"GetBootstrapData", "CreateVirtualMachine"}

\* a later invocation went through the guard with a VM identifier persisted and
\* no address discovered yet
C2_Witness ==
  /\ pc = "GetVirtualMachine"
  /\ store.status.vmid # <<>>
  /\ store.status.addresses = <<>>

\* C3: when start-vm is about to be issued, and after an invocation in which
\* start-vm failed, the persisted status carries the VM identifier create-vm
\* returned and the final disk path.
C3_VMIDPersistedBeforeStart ==
  (\/ pc = "StartVirtualMachine"
   \/ pc = "returned" /\ calls # <<>> /\ LastCall = [op |-> "start-vm", ok |-> FALSE])
  => /\ store.status.vmid = <<vm>>
     /\ store.status.diskPath = finalImagePath(spec.name, imageName)

\* C4: whenever the cleanup marker is absent from the resource, every VM that
\* create-vm returned has been deleted on the appliance.
C4_NoOrphanVM ==
  ~HasMarker(store)
    => \A id \in Created : vms[id] = "deleted"

\* C5: once the persisted provider ID is non-empty no step changes it.
C5_ProviderIDWrittenOnce ==
  [][store.providerID # <<>> => store'.providerID = store.providerID]_vars

\* an invocation created a VM while a provider ID naming another VM was
\* already persisted, and went on to start-vm with the provider ID kept
C5_Witness ==
  /\ pc = "StartVirtualMachine"
  /\ store.providerID # <<>>
  /\ store.providerID # FormatProviderID(vm)

\* C6: when provider ID and VM identifier are both persisted, the provider ID
\* is "freebox://" followed by the persisted VM identifier.
C6_ProviderIDNamesVMID ==
  (store.providerID # <<>> /\ store.status.vmid # <<>>)
    => store.providerID = FormatProviderID(store.status.vmid[1])

\* C7: the persisted VM identifier, once set, is never changed nor cleared.
C7_VMIDStable ==
  [][store.status.vmid # <<>> => store'.status.vmid = store.status.vmid]_vars

\* a later invocation has written the status (the discovered addresses) of a
\* machine whose VM identifier was already persisted
C7_Witness ==
  /\ pc = "returned"
  /\ Issued("get-vm")
  /\ LastCall = [op |-> "status-update", ok |-> TRUE]
  /\ store.status.vmid # <<>>
  /\ store.status.addresses # <<>>

\* C8: a provisioning call is issued only with the cleanup marker persisted;
\* an invocation whose marker write fails returns an error and issues no
\* remote call.
C8_MarkerBeforeProvisioning ==
  /\ (pc \in ProvisioningSteps \/ \E k \in 1..Len(calls) : calls[k].op \in ProvisioningOps)
       => HasMarker(store)
  /\ (/\ pc = "returned"
      /\ ~machine.deleting
      /\ calls # <<>>
      /\ calls[1] = [op |-> "update", ok |-> FALSE])
       => result = "error" /\ Len(calls) = 1

\* the invocation that persisted the marker is about to submit the download
C8_Witness ==
  /\ pc = "StartDownload"
  /\ calls = <<[op |-> "update", ok |-> TRUE]>>
  /\ HasMarker(store)

\* C9: an invocation that finds a deletion request and no cleanup marker
\* returns success at once, with no remote call and no write.
C9_DeletionWithoutMarkerIsNoOp ==
  [][(/\ pc = "idle"
      /\ store.exists
      /\ store.deleting
      /\ ~HasMarker(store))
     => (/\ pc' = "returned"
         /\ result' = "ok"
         /\ calls' = <<>>
         /\ store' = store
         /\ vms' = vms
         /\ nextTask' = nextTask)]_vars

\* such an invocation has returned for a machine whose status holds a VM
\* identifier and a disk path
C9_Witness ==
  /\ pc = "returned"
  /\ result = "ok"
  /\ calls = <<>>
  /\ machine.exists
  /\ machine.deleting
  /\ ~HasMarker(machine)
  /\ machine.status.vmid # <<>>
  /\ machine.status.diskPath # NoPath

\* the deletion protocol, entered with no VM identifier persisted, is at the
\* marker removal and has issued nothing
C10_NoRemoteCall ==
  (pc \in DeletionSteps /\ machine.status.vmid = <<>>)
    => pc = "RemoveFinalizer" /\ calls = <<>>

\* the deletion protocol has returned for a machine with no VM identifier
C10_Returned ==
  /\ pc = "returned"
  /\ machine.exists
  /\ machine.deleting
  /\ machine.status.vmid = <<>>
  /\ calls # <<>>

\* C10 as stated: a machine with the marker that is deleted before a VM
\* identifier is persisted gets zero remote calls and has its marker removed
\* in that single invocation.
C10_MarkerRemovedInOneInvocation ==
  /\ C10_NoRemoteCall
  /\ C10_Returned => ~HasMarker(store)

\* C10 amended: zero remote calls, the marker removal is the only write; the
\* marker is removed in that invocation when the store accepts the write,
\* otherwise the invocation returns an error and the marker stays.
C10_MarkerRemovedWhenWriteAccepted ==
  /\ C10_NoRemoteCall
  /\ C10_Returned =>
       /\ Len(calls) = 1
       /\ calls[1].op = "update"
       /\ calls[1].ok =>
            (result = "ok" /\ ~HasMarker(store))
       /\ ~calls[1].ok =>
            (result = "error" /\ HasMarker(store))

\* the marker of a machine deleted while its image was downloading has been
\* removed by one invocation that issued no remote call
C10_Witness ==
  /\ C10_Returned
  /\ calls = <<[op |-> "update", ok |-> TRUE]>>
  /\ machine.status.imagePhase.reason = "Downloading"
  /\ ~HasMarker(store)

\* the calls of the provisioning pipeline, status queries included
C11_PipelineOps ==
  ProvisioningOps \cup
    {"poll-download", "poll-filesystem-task", "poll-resize-task", "list-lan-hosts",
     "get-owner-machine", "get-bootstrap-secret", "status-update"}

\* C11: an invocation that fetched a resource carrying a deletion request
\* runs only the deletion protocol: it issues no call of the provisioning
\* pipeline, submits no task and leaves the persisted progress marker as it is.
C11_DeletionRedirectsEveryPhase ==
  [][(machine'.exists /\ machine'.deleting)
     => (/\ pc' \in DeletionSteps \cup {"returned"}
         /\ \A k \in 1..Len(calls') : calls'[k].op \notin C11_PipelineOps
         /\ nextTask' = nextTask
         /\ store'.status.imagePhase = store.status.imagePhase)]_vars

\* a machine deleted while its resize task was recorded as running, with a VM
\* already created, has gone through the deletion protocol
C11_Witness ==
  /\ pc = "returned"
  /\ result = "ok"
  /\ machine.deleting
  /\ Decode(machine).phase = "resize"
  /\ Decode(machine).taskID # 0
  /\ Issued("delete-vm")
  /\ ~store.exists

\* C12: with a VM identifier recorded, the cleanup marker is removed only by
\* an invocation in which delete-vm succeeded; a failed delete-vm ends the
\* invocation with an error, with no removal of disk files submitted and the
\* marker and the status left as they were.
C12_DeleteFailureAbortsCleanup ==
  [][/\ (HasMarker(store) /\ ~HasMarker(store') /\ store.status.vmid # <<>>)
          => \E k \in 1..Len(calls') : calls'[k] = [op |-> "delete-vm", ok |-> TRUE]
     /\ (/\ pc = "DeleteVirtualMachine"
         /\ calls' # <<>>
         /\ LastCall' = [op |-> "delete-vm", ok |-> FALSE])
          => (/\ pc' = "returned"
              /\ result' = "error"
              /\ ~(\E k \in 1..Len(calls') : calls'[k].op \in {"remove-files", "update"})
              /\ store' = store
              /\ HasMarker(store')
              /\ nextTask' = nextTask)]_vars

\* delete-vm was refused for a VM that had not stopped, and the invocation
\* returned an error with the marker in place
C12_Witness ==
  /\ pc = "returned"
  /\ result = "error"
  /\ LastCall = [op |-> "delete-vm", ok |-> FALSE]
  /\ vms[machine.status.vmid[1]] = "running"
  /\ HasMarker(store)
  /\ store.status = machine.status

\* C13: the removal of the disk files is best effort: an invocation of the
\* deletion protocol that has submitted it goes on to the removal of the
\* cleanup marker whether or not the submission was accepted.
C13_FileRemovalIsBestEffort ==
  (pc = "returned" /\ Issued("remove-files"))
    => LastCall.op = "update"

\* C14: under fair re-invocation, with an appliance and a store that do not
\* refuse for ever an operation that can succeed, a resource that carries a
\* deletion request and the cleanup marker eventually loses the marker.
C14_DeletionCompletes ==
  (store.exists /\ store.deleting /\ HasMarker(store)) ~> ~HasMarker(store)

\* the file that extract or copy leaves in the VM storage is not the final image
C15_RenameNeeded ==
  IF isCompressedFile(imageName)
    THEN Join(VMStoragePath, removeCompressionExtension(imageName))
           # finalImagePath(spec.name, imageName)
    ELSE Join(VMStoragePath, imageName) # finalImagePath(spec.name, imageName)

\* the step is about to be submitted or has been accepted by the appliance
C15_Submitting(step, at) == pc = at \/ submitted[step] > 0

\* C15: the steps of one resource are sequential: extract or copy is submitted
\* only after a download query answered done, the rename only after the
\* extract or copy query answered done, the resize only after extract or copy
\* (and the rename, when one is needed) answered done, and create-vm only
\* after a resize query answered done.
C15_StepsAreSequential ==
  /\ (C15_Submitting("extract", "StartExtraction") \/ C15_Submitting("copy", "StartCopy"))
       => "download" \in polledDone
  /\ C15_Submitting("rename", "StartRename")
       => polledDone \cap {"extract", "copy"} # {}
  /\ C15_Submitting("resize", "StartResize")
       => /\ polledDone \cap {"extract", "copy"} # {}
          /\ C15_RenameNeeded => "rename" \in polledDone
  /\ (pc = "CreateVirtualMachine" \/ Created # {})
       => "resize" \in polledDone

\* a compressed image went once through download, extract, rename and resize
\* and the VM is about to be created
C15_Witness ==
  /\ pc = "CreateVirtualMachine"
  /\ polledDone = {"download", "extract", "rename", "resize"}
  /\ submitted = [k \in PipelineSteps |-> IF k = "copy" THEN 0 ELSE 1]

\* the status query and the submission of every pipeline step
C16_WaitStep ==
  [k \in PipelineSteps |->
     CASE k = "download" -> "WaitForDownload"
       [] k = "extract" -> "WaitForExtraction"
       [] k = "copy" -> "WaitForCopy"
       [] k = "rename" -> "WaitForRename"
       [] k = "resize" -> "WaitForResize"]
C16_SubmitOps == {"submit-download", "extract", "copy", "move", "resize-disk"}

\* an invocation starts on a persisted marker that records a step and a task id
C16_StartsOnRecordedTask(step) ==
  /\ pc = "idle"
  /\ pc' \notin {"idle", "returned"}
  /\ store.exists
  /\ ~store.deleting
  /\ Decode(store).phase = step
  /\ Decode(store).taskID # 0

\* C16: an invocation that starts on a persisted marker recording step P with
\* a non-zero task id goes to the status query of P for that task id, and
\* submits no task.
C16_RecordedTaskIsOnlyPolled ==
  /\ [][\A step \in PipelineSteps :
          C16_StartsOnRecordedTask(step)
            => (/\ pc' = C16_WaitStep[step]
                /\ taskID' = Decode(store).taskID
                /\ calls' = <<>>)]_vars
  /\ [](\A step \in PipelineSteps :
          entry = C16_WaitStep[step]
            => (/\ taskID # 0
                /\ \A k \in 1..Len(calls) : calls[k].op \notin C16_SubmitOps
                /\ pc = entry => taskID = Decode(store).taskID))

\* the rename task recorded in the marker was queried, is still running, and
\* the invocation returned without any submission
C16_Witness ==
  /\ pc = "returned"
  /\ result = "requeue"
  /\ entry = "WaitForRename"
  /\ calls = <<[op |-> "poll-filesystem-task", ok |-> TRUE]>>
  /\ Decode(store) = [phase |-> "rename", taskID |-> taskID]
  /\ submitted["rename"] = 1

\* C17: the appliance accepts every pipeline step (download, extract, copy,
\* rename, resize) at most once for the resource, failed and conflicting
\* status writes included.
C17_StepSubmittedAtMostOnce ==
  \A step \in PipelineSteps : submitted[step] <= 1

\* the reasons of the markers an uninterrupted invocation persists from the
\* step it selected: the marker of the answer "done" (or of the accepted
\* submission) and the marker of the answer "failed"
C18_NextReasons(step) ==
  LET placed == IF C15_RenameNeeded THEN "Renaming" ELSE "Resizing" IN
  CASE step = "StartDownload" -> {"Downloading"}
    [] step = "WaitForDownload" ->
         {IF isCompressedFile(imageName) THEN "Extracting" ELSE "Copying", "DownloadFailed"}
    [] step = "StartExtraction" -> {"Extracting"}
    [] step = "WaitForExtraction" -> {placed, "ExtractionFailed"}
    [] step = "StartCopy" -> {"Copying"}
    [] step = "WaitForCopy" -> {placed, "CopyFailed"}
    [] step = "StartRename" -> {"Renaming"}
    [] step = "WaitForRename" -> {"Resizing", "RenameFailed"}
    [] step = "StartResize" -> {"Resizing"}
    [] step = "WaitForResize" -> {"Completed", "ResizeFailed"}
    [] OTHER -> {}

\* C18: an invocation started after a crash, from the persisted fields alone,
\* selects the step and the task id the interrupted invocation had selected,
\* with the same recorded VM; and the marker an invocation persists is the
\* one of the step it selected, written by the write that ends the invocation.
C18_CrashResumability ==
  /\ [][(/\ pc = "idle"
          /\ pc' # "idle"
          /\ interrupted.step # "none"
          /\ store.exists
          /\ ~store.deleting)
         => (/\ pc' = interrupted.step
             /\ taskID' = interrupted.taskID)]_vars
  /\ [][store'.status.imagePhase # store.status.imagePhase
         => (/\ pc' = "returned"
             /\ store'.status.imagePhase.reason \in C18_NextReasons(entry))]_vars
  /\ []((pc \in {"GetBootstrapData", "CreateVirtualMachine", "SetProviderID",
                   "StartVirtualMachine", "FindVMAddress", "PersistVM", "PersistReady"}
           => store.status.vmid = <<>>)
         /\
         (pc \in {"GetVirtualMachine", "FindExistingVMAddress", "PersistAddresses"}
           => store.status.vmid # <<>>))

\* an invocation crashed after the appliance accepted the extraction; the
\* invocation that followed selected the same step and has persisted the
\* marker of the extraction
C18_Witness ==
  /\ pc = "returned"
  /\ interrupted = [step |-> "StartExtraction", taskID |-> 0]
  /\ entry = "StartExtraction"
  /\ submitted["extract"] = 2
  /\ store.status.imagePhase.reason = "Extracting"
  /\ Decode(store).taskID = nextTask - 1

\* the pipeline position a marker was written for, by the reason of the marker
C19_WrittenFor(reason) ==
  CASE reason = "Downloading" -> "download"
    [] reason = "Extracting" -> "extract"
    [] reason = "Copying" -> "copy"
    [] reason = "Renaming" -> "rename"
    [] reason = "Resizing" -> "resize"
    [] reason = "Completed" -> "done"
    [] reason = "DownloadFailed" -> "download failed"
    [] reason = "ExtractionFailed" -> "extract failed"
    [] reason = "CopyFailed" -> "copy failed"
    [] reason = "RenameFailed" -> "rename failed"
    [] reason = "ResizeFailed" -> "resize failed"
    [] OTHER -> "unknown"

\* C19: every persisted progress marker decodes to the position it was
\* written for; in particular no persisted marker decodes to the position
\* "not started" (the empty phase).
C19_MarkerDecodesToItsPosition ==
  HasCondition(store.status.imagePhase)
    => /\ Decode(store).phase = C19_WrittenFor(store.status.imagePhase.reason)
       /\ Decode(store).phase # ""

\* the status query and the failure reason of every pipeline step
C20_PollOp ==
  [k \in PipelineSteps |->
     CASE k = "download" -> "poll-download"
       [] k = "resize" -> "poll-resize-task"
       [] OTHER -> "poll-filesystem-task"]
C20_FailedReason ==
  [k \in PipelineSteps |->
     CASE k = "download" -> "DownloadFailed"
       [] k = "extract" -> "ExtractionFailed"
       [] k = "copy" -> "CopyFailed"
       [] k = "rename" -> "RenameFailed"
       [] k = "resize" -> "ResizeFailed"]

\* the invocation whose status query of the step answered "failed" ends
C20_EndsAfterFailedPoll(step) ==
  /\ pc = "PersistPhase"
  /\ pc' = "returned"
  /\ entry = C16_WaitStep[step]
  /\ machine.status.imagePhase.reason = C20_FailedReason[step]

\* the invocation returns an error and has issued the status query and one
\* status write only; nothing was submitted and no VM was touched
C20_ErrorAndNothingElse(step) ==
  /\ result' = "error"
  /\ Len(calls') = 2
  /\ calls'[1] = [op |-> C20_PollOp[step], ok |-> TRUE]
  /\ calls'[2].op = "status-update"
  /\ vms' = vms
  /\ nextTask' = nextTask
  /\ submitted' = submitted

\* the stored resource with the failure condition of the step and no other change
C20_WithFailure(step) ==
  [store EXCEPT !.status.imagePhase.status = "False",
                !.status.imagePhase.reason = C20_FailedReason[step],
                !.status.imagePhase.message = machine.status.imagePhase.message]

\* C20 as stated: the invocation whose status query reports a failed task
\* persists the failure condition of the step, returns an error, issues no
\* further remote operation and sets neither provisioned, the VM identifier,
\* the provider ID nor image-ready.
C20_FailureConditionPersisted ==
  [][\A step \in PipelineSteps :
       C20_EndsAfterFailedPoll(step)
         => (/\ C20_ErrorAndNothingElse(step)
             /\ store' = C20_WithFailure(step))]_vars

\* C20 amended: the invocation returns an error, issues no further remote
\* operation and attempts one status write that carries only the failure
\* condition of the step; the condition is persisted when the store accepts
\* that write, otherwise the stored resource is left as it was.
C20_FailureConditionWritten ==
  [][\A step \in PipelineSteps :
       C20_EndsAfterFailedPoll(step)
         => (/\ C20_ErrorAndNothingElse(step)
             /\ machine.status.imagePhase.message.kind = "text"
             /\ store' = IF calls'[2].ok THEN C20_WithFailure(step) ELSE store)]_vars

\* the resize task was reported failed: the invocation has persisted the
\* failure condition and returned an error, with no VM created
C20_Witness ==
  /\ pc = "returned"
  /\ result = "error"
  /\ entry = "WaitForResize"
  /\ calls = <<[op |-> "poll-resize-task", ok |-> TRUE],
               [op |-> "status-update", ok |-> TRUE]>>
  /\ store.status.imagePhase.reason = "ResizeFailed"
  /\ store.status.imageReady = NoCondition
  /\ store.status.vmid = <<>>
  /\ ~store.status.provisioned
  /\ store.providerID = <<>>
  /\ Created = {}

\* the failure reasons of the pipeline steps
C21_FailedReasons == {C20_FailedReason[k] : k \in PipelineSteps}

\* C21: while the persisted progress marker records a failed task, no
\* invocation submits a download or any later pipeline step: the calls of
\* the running invocation contain no accepted submission.
C21_FailedTaskIsOnlyRepolled ==
  (store.exists /\ store.status.imagePhase.reason \in C21_FailedReasons)
    => \A k \in 1..Len(calls) : ~(calls[k].op \in C16_SubmitOps /\ calls[k].ok)

\* the compressed suffixes in every letter case the image names use
C22_CompressedSuffixes == {"gz", "GZ", "xz", "XZ", "bz2", "zip", "tar"}
\* the last extension of the file name is a compressed suffix
C22_LastExtensionCompressed(name) ==
  Len(name) >= 2 /\ name[Len(name)] \in C22_CompressedSuffixes

\* C22: when the download poll reports done, the phase the invocation goes
\* on to persist is Extracting if and only if the last extension of the
\* image file name is a compressed suffix in any letter case, otherwise
\* Copying; and a persisted extract (copy) phase is only ever recorded for a
\* compressed (uncompressed) name.
C22_DownloadDoneClassifies ==
  /\ (/\ pc = "PersistPhase"
      /\ entry = "WaitForDownload"
      /\ machine.status.imagePhase.reason # "DownloadFailed")
       => /\ machine.status.imagePhase.reason =
               IF C22_LastExtensionCompressed(imageName) THEN "Extracting" ELSE "Copying"
          /\ Decode(machine).phase =
               IF C22_LastExtensionCompressed(imageName) THEN "extract" ELSE "copy"
          /\ Decode(machine).taskID = 0
  /\ Decode(store).phase = "extract" => C22_LastExtensionCompressed(imageName)
  /\ Decode(store).phase = "copy" => ~C22_LastExtensionCompressed(imageName)

\* the download of image.raw.XZ is done and the extract phase is persisted
C22_Witness ==
  /\ pc = "returned"
  /\ entry = "WaitForDownload"
  /\ imageName = <<"image", "raw", "XZ">>
  /\ store.status.imagePhase.reason = "Extracting"
  /\ Decode(store) = [phase |-> "extract", taskID |-> 0]
  /\ "download" \in polledDone

\* the file name without its trailing compressed suffix, if it has one
C23_StrippedOnce(name) ==
  IF C22_LastExtensionCompressed(name) THEN SubSeq(name, 1, Len(name) - 1) ELSE name
\* the extension that remains, "raw" when none does
C23_ExpectedExt(name) ==
  LET n == C23_StrippedOnce(name) IN IF Len(n) >= 2 THEN n[Len(n)] ELSE "raw"
\* <vm-storage-dir>/<vm-name><ext>
C23_ExpectedPath ==
  [dir |-> "/VMs", name |-> <<spec.name, C23_ExpectedExt(imageName)>>]

\* C23: for every image file name the final image path is
\* <vm-storage-dir>/<vm-name><ext>, ext being the extension left after
\* stripping at most one compressed suffix and .raw when none is left; the
\* destination of the rename, the path given to resize and create-vm, and
\* the persisted disk path are that path.
C23_FinalImagePath ==
  /\ pc \in {"StartResize", "CreateVirtualMachine"}
       => finalImagePath(spec.name, imageName) = C23_ExpectedPath
  /\ pc = "StartRename"
       => RenamePaths(machine.status.imagePhase.message).dst = C23_ExpectedPath
  /\ Decode(store).phase = "rename"
       => RenamePaths(store.status.imagePhase.message).dst = C23_ExpectedPath
  /\ machine.status.diskPath # NoPath => machine.status.diskPath = C23_ExpectedPath
  /\ store.status.diskPath # NoPath => store.status.diskPath = C23_ExpectedPath

\* image.tar.gz was downloaded, extracted, renamed and resized; the VM was
\* created and its disk path vm1.tar is persisted
C23_Witness ==
  /\ imageName = <<"image", "tar", "gz">>
  /\ "rename" \in polledDone
  /\ "resize" \in polledDone
  /\ Created # {}
  /\ store.status.diskPath = [dir |-> "/VMs", name |-> <<"vm1", "tar">>]

\* the image of the end-to-end scenario: uncompressed, named differently from the VM
C24_Image == [dir |-> "https://images", file |-> <<"debian", "qcow2">>]
\* the order in which the persisted progress changes
C24_Order ==
  {<<"", "Downloading">>, <<"Downloading", "Copying">>, <<"Copying", "Renaming">>,
   <<"Renaming", "Resizing">>, <<"Resizing", "Completed">>}
\* the run has ended: provider ID freebox://<id>, VM identifier, addresses,
\* provisioned and Ready
C24_Ended ==
  /\ store.status.provisioned
  /\ store.status.ready.status = "True"
  /\ store.status.vmid # <<>>
  /\ store.providerID = FormatProviderID(store.status.vmid[1])
  /\ store.status.addresses # <<>>

\* C24: for the image debian.qcow2, with every remote call succeeding, the
\* persisted progress changes only along NotStarted, Downloading, Copying,
\* Renaming, Resizing, Completed; addresses are persisted only with a VM
\* identifier; and the run eventually ends with provider ID freebox://<id>,
\* addresses, provisioned=true and Ready=True.
C24_EndToEnd ==
  /\ [][spec.imageURL = C24_Image /\ store'.status.imagePhase.reason # store.status.imagePhase.reason
          => <<store.status.imagePhase.reason, store'.status.imagePhase.reason>> \in C24_Order]_vars
  /\ [](spec.imageURL = C24_Image /\ store.status.addresses # <<>> => store.status.vmid # <<>>)
  /\ (spec.imageURL = C24_Image) ~> C24_Ended

\* C25: whenever a non-empty address list is persisted, provisioned=true
\* and the Ready condition set to True are persisted with it.
C25_AddressesComeWithReady ==
  (store.exists /\ store.status.addresses # <<>>)
    => /\ store.status.provisioned
       /\ store.status.ready.status = "True"

\* the VM was created and started
C26_VMStarted == \E id \in VMIDs : vms[id] = "running"

\* C26: under fair re-invocation, once create-vm and start-vm have succeeded
\* and the LAN inventory eventually lists the VM with an IPv4 address, the
\* resource eventually has provisioned=true and the Ready condition True
\* with reason InfrastructureReady.
C26_ReadinessIsReached ==
  C26_VMStarted
    ~> (/\ store.status.provisioned
        /\ store.status.ready.status = "True"
        /\ store.status.ready.reason = "InfrastructureReady")

\* C27: in every persisted state provisioned=true implies that a VM
\* identifier is recorded and that the discovered address list is not
\* empty.
C27_ProvisionedHasVMAndAddress ==
  (store.exists /\ store.status.provisioned)
    => /\ store.status.vmid # <<>>
       /\ store.status.addresses # <<>>

\* the reads of the bootstrap lookup
C28_BootstrapReadOps == {"get-owner-machine", "get-bootstrap-secret"}

\* C28: an invocation that ends in the bootstrap lookup with every read
\* answered (the owner Machine, its secret reference or the payload is not
\* there yet) has not called create-vm and returns a timed retry, not an
\* error.
C28_BootstrapNotAvailableRetries ==
  (/\ pc = "returned"
   /\ calls # <<>>
   /\ LastCall.op \in C28_BootstrapReadOps
   /\ LastCall.ok)
    => /\ result = "requeue"
       /\ ~Issued("create-vm")

\* an invocation of the machine reconciler starts for a name that is not in the store
C29_MachineNotFound == pc = "idle" /\ ~store.exists /\ pc' # "idle"
\* an invocation of the cluster reconciler starts for a name that is not in the store
C29_ClusterNotFound ==
  clusterRun.pc = "idle" /\ ~cluster.exists /\ clusterRun'.pc # "idle"

\* C29: Reconcile for a machine or a cluster that is not in the store
\* returns at once with success; it issues no remote call and no write,
\* and leaves the store and the appliance as they are.
C29_NotFoundIsSuccess ==
  [][/\ C29_MachineNotFound
        => /\ pc' = "returned"
           /\ result' = "ok"
           /\ calls' = <<>>
           /\ store' = store
           /\ vms' = vms
           /\ nextTask' = nextTask
     /\ C29_ClusterNotFound
        => /\ clusterRun'.pc = "returned"
           /\ clusterRun'.result = "ok"
           /\ clusterRun'.writes = 0
           /\ cluster' = cluster]_vars

\* both reconcilers have returned success for a name that is not in the store
C29_Witness ==
  /\ ~store.exists
  /\ pc = "returned"
  /\ ~machine.exists
  /\ result = "ok"
  /\ calls = <<>>
  /\ ~cluster.exists
  /\ clusterRun.pc = "returned"
  /\ clusterRun.result = "ok"
  /\ clusterRun.writes = 0

\* an invocation starts on a provisioned machine that carries no deletion request
C30_StartsOnProvisioned ==
  /\ pc = "idle"
  /\ pc' # "idle"
  /\ store.exists
  /\ ~store.deleting
  /\ store.status.provisioned

C31_ReturnsSuccess ==
  /\ clusterRun.pc = "Patch"
  /\ clusterRun'.pc = "returned"
  /\ clusterRun'.result = "ok"

\* C31: when Reconcile of a FreeboxCluster it fetched returns success and
\* the cluster is still in the store, initialization.provisioned is true;
\* when the fetched cluster was already provisioned the invocation leaves
\* the stored cluster, control-plane endpoint included, as it is; no
\* invocation changes the control-plane endpoint or clears provisioned.
C31_ClusterProvisionedOnce ==
  [][/\ (C31_ReturnsSuccess /\ cluster'.exists) => cluster'.provisioned
     /\ (C31_ReturnsSuccess /\ clusterRun.before.provisioned) => cluster' = cluster
     /\ (cluster.exists /\ cluster'.exists)
          => /\ cluster'.endpoint = cluster.endpoint
             /\ cluster.provisioned => cluster'.provisioned]_vars

\* a second invocation on the provisioned cluster has returned success
\* without a write, the endpoint being the one of the new cluster
C31_Witness ==
  /\ clusterRun.pc = "returned"
  /\ clusterRun.result = "ok"
  /\ clusterRun.before.provisioned
  /\ clusterRun.writes = 0
  /\ cluster = [NewCluster EXCEPT !.provisioned = TRUE]

\* the accepted task submissions of the running invocation
C33_Submissions ==
  {k \in 1..Len(calls) : calls[k].op \in C16_SubmitOps /\ calls[k].ok}

\* C33: an invocation issues at most one task submission (accepted or not),
\* and the step that changes the persisted progress marker is the last
\* step of its invocation, so an invocation performs at most one
\* progress-marker transition.
C33_OneSubmissionOneTransition ==
  /\ [](Cardinality({k \in 1..Len(calls) : calls[k].op \in C16_SubmitOps}) <= 1)
  /\ [][/\ nextTask' # nextTask => (C33_Submissions = {} /\ nextTask' = nextTask + 1)
        /\ store'.status.imagePhase # store.status.imagePhase => pc' = "returned"]_vars

\* the invocation that found the copy done has persisted the rename phase
\* and returned without submitting anything
C33_Witness ==
  /\ pc = "returned"
  /\ entry = "WaitForCopy"
  /\ calls = <<[op |-> "poll-filesystem-task", ok |-> TRUE],
               [op |-> "status-update", ok |-> TRUE]>>
  /\ store.status.imagePhase.reason = "Renaming"
  /\ result = "requeue"

\* the path at which the extraction or the copy leaves the image
C34_OutputPath ==
  [dir |-> "/VMs",
   name |-> IF C22_LastExtensionCompressed(imageName)
              THEN C23_StrippedOnce(imageName) ELSE imageName]
\* the marker that asks for the rename of the output to the final image path
C34_RenameMarker ==
  [kind |-> "phase", phase |-> "rename", hasTask |-> TRUE, task |-> 0,
   hasPaths |-> TRUE, src |-> C34_OutputPath, dst |-> C23_ExpectedPath]

\* C34: when an extract or copy poll reports done, the phase the invocation
\* goes on to persist is Renaming, with src the output path of the
\* operation and dst the final image path, if and only if the two paths
\* differ; otherwise it is Resizing, and no move is ever submitted for such
\* an image.
C34_RenameIffPathsDiffer ==
  /\ (/\ pc = "PersistPhase"
      /\ entry \in {"WaitForExtraction", "WaitForCopy"}
      /\ machine.status.imagePhase.reason \notin C21_FailedReasons)
       => IF C34_OutputPath # C23_ExpectedPath
            THEN /\ machine.status.imagePhase.reason = "Renaming"
                 /\ machine.status.imagePhase.message = C34_RenameMarker
            ELSE /\ machine.status.imagePhase.reason = "Resizing"
                 /\ Decode(machine) = [phase |-> "resize", taskID |-> 0]
  /\ Decode(store).phase = "rename"
       => /\ C34_OutputPath # C23_ExpectedPath
          /\ RenamePaths(store.status.imagePhase.message) =
               [src |-> C34_OutputPath, dst |-> C23_ExpectedPath]
  /\ C34_OutputPath = C23_ExpectedPath
       => submitted["rename"] = 0 /\ pc # "StartRename"

\* vm1.raw.xz was extracted to the final image path: the resize phase is
\* persisted and no move was submitted
C34_Witness ==
  /\ imageName = <<"vm1", "raw", "xz">>
  /\ pc = "returned"
  /\ entry = "WaitForExtraction"
  /\ "extract" \in polledDone
  /\ store.status.imagePhase.reason = "Resizing"
  /\ Decode(store) = [phase |-> "resize", taskID |-> 0]
  /\ submitted["rename"] = 0

\* the positions at which the recorded task is polled
C35_WaitSteps == {C16_WaitStep[k] : k \in PipelineSteps}
\* the status queries of the tasks
C35_PollOps == {C20_PollOp[k] : k \in PipelineSteps}

\* the poll of the recorded task was answered with a state that is neither
\* done nor failed: the invocation ends at the poll
C35_PollNotTerminal ==
  /\ pc \in C35_WaitSteps
  /\ pc' = "returned"
  /\ calls' # <<>>
  /\ calls'[Len(calls')].ok

\* C35: an invocation whose poll of the recorded task is answered with a
\* non-terminal state returns a timed retry, has issued the poll and
\* nothing else, and leaves the persisted resource, the in-memory marker
\* and the appliance as they are.
C35_RunningPollChangesNothing ==
  [][C35_PollNotTerminal
       => /\ result' = "requeue"
          /\ Len(calls') = 1
          /\ calls'[1].op \in C35_PollOps
          /\ store' = store
          /\ machine' = machine
          /\ nextTask' = nextTask
          /\ submitted' = submitted
          /\ vms' = vms]_vars

\* the copy task is still running: the invocation has returned a retry and
\* the persisted marker still records the copy and its task
C35_Witness ==
  /\ pc = "returned"
  /\ entry = "WaitForCopy"
  /\ result = "requeue"
  /\ calls = <<[op |-> "poll-filesystem-task", ok |-> TRUE]>>
  /\ store.status.imagePhase.reason = "Copying"
  /\ Decode(store).phase = "copy"
  /\ Decode(store).taskID = taskID
  /\ taskID # 0
  /\ "copy" \notin polledDone

\* the first call of the running invocation is kill-vm
C36_KillIssuedFirst == calls # <<>> /\ calls[1].op = "kill-vm"

\* C36: an invocation of the deletion protocol for a resource with a VM
\* identifier issues kill-vm before anything else, so delete-vm is only
\* issued after kill-vm in the same invocation; whatever kill-vm answered,
\* the invocation does not return before it has issued delete-vm.
C36_KillThenDelete ==
  /\ (pc \in DeletionSteps /\ machine.status.vmid # <<>>) => entry = "KillVirtualMachine"
  /\ (entry = "KillVirtualMachine" /\ pc # "KillVirtualMachine") => C36_KillIssuedFirst
  /\ Issued("delete-vm") => C36_KillIssuedFirst
  /\ (pc = "returned" /\ entry = "KillVirtualMachine")
       => \E k \in 2..Len(calls) : calls[k].op = "delete-vm"

\* kill-vm failed and delete-vm was issued in the same invocation
C36_Witness ==
  /\ entry = "KillVirtualMachine"
  /\ calls # <<>>
  /\ calls[1] = [op |-> "kill-vm", ok |-> FALSE]
  /\ LastCall = [op |-> "delete-vm", ok |-> TRUE]

\* the VM of the resource being deleted
C37_VM == machine.status.vmid[1]
\* an iteration of the stop-wait loop is taken
C37_Polls ==
  /\ pc = "WaitForStop"
  /\ pc' # "idle"
  /\ <<pc, i, calls, vms>>' # <<pc, i, calls, vms>>

\* C37: the stop-wait loop terminates: fewer than 30 polls have been made
\* whenever the loop is about to poll, every iteration issues get-vm, the
\* loop goes on only after an answered poll that did not report stopped and
\* only with one more poll counted, and otherwise delete-vm is the next
\* step, whether or not the VM was observed stopped.
C37_StopWaitTerminates ==
  /\ [](pc = "WaitForStop" => i < 30)
  /\ [][C37_Polls
          => /\ calls'[Len(calls')].op = "get-vm"
             /\ pc' \in {"WaitForStop", "DeleteVirtualMachine"}
             /\ pc' = "WaitForStop"
                  => /\ calls'[Len(calls')].ok
                     /\ vms'[C37_VM] # "stopped"
                     /\ i' = i + 1
                     /\ i' < 30
             /\ (~calls'[Len(calls')].ok \/ vms'[C37_VM] = "stopped" \/ i = 29)
                  => pc' = "DeleteVirtualMachine"]_vars

\* thirty polls were answered without reporting stopped: delete-vm is the
\* next step for a VM that is still stopping
C37_Witness ==
  /\ pc = "DeleteVirtualMachine"
  /\ vms[C37_VM] = "stopping"
  /\ LastCall = [op |-> "get-vm", ok |-> TRUE]

\* C38: once a VM identifier is persisted, no invocation submits a
\* download, an extraction, a copy, a move or a resize: its calls contain
\* no submission and it is at no position that submits one.
C38_NoResubmissionOnceVMRecorded ==
  (store.exists /\ store.status.vmid # <<>>)
    => /\ \A k \in 1..Len(calls) : calls[k].op \notin C16_SubmitOps
       /\ pc \notin {"StartDownload", "StartExtraction", "StartCopy", "StartRename",
                     "StartResize"}

\* C39: the persisted state records a disk path exactly when it records a
\* VM identifier, and so does the machine an invocation works on; an
\* invocation that issued remove-files works on a machine with a recorded
\* VM, and an accepted delete-vm is followed by the submission of
\* remove-files, at once or as the next call of the invocation.
C39_Paired(mach) == (mach.status.diskPath # NoPath) <=> (mach.status.vmid # <<>>)

C39_DiskPathIffVM ==
  /\ C39_Paired(store)
  /\ (pc \notin {"idle", "Get"}) => C39_Paired(machine)
  /\ Issued("remove-files") => machine.status.vmid # <<>>
  /\ \A k \in 1..Len(calls) :
       (calls[k] = [op |-> "delete-vm", ok |-> TRUE])
         => \/ k = Len(calls) /\ pc = "RemoveFiles"
            \/ k < Len(calls) /\ calls[k + 1].op = "remove-files"

\* a deletion that deleted the recorded VM and then submitted the removal
\* of its disk, the store still recording both
C39_Witness ==
  /\ store.exists
  /\ store.status.vmid # <<>>
  /\ store.status.diskPath # NoPath
  /\ Len(calls) >= 2
  /\ calls[Len(calls) - 1] = [op |-> "delete-vm", ok |-> TRUE]
  /\ calls[Len(calls)] = [op |-> "remove-files", ok |-> TRUE]

\* ---------------------------------------------------------------------
\* Two resources of one image URL (lines 169-184, 198-488).  Each
\* invocation is taken as one step whose status write is accepted; the
\* appliance runs the task a resource submitted between two invocations.
\* ---------------------------------------------------------------------
\* line 313 and line 389: the path the extraction or the copy leaves in VM storage
PairOutputPath ==
  IF isCompressedFile(imageName)
    THEN Join(VMStoragePath, removeCompressionExtension(imageName))
    ELSE Join(VMStoragePath, imageName)

PairHasFile(path) == \E f \in pair.files : f.path = path

\* a write in overwrite mode (lines 356 and 440)
PairWriteFile(files, path, r) ==
  {f \in files : f.path # path} \cup {[path |-> path, by |-> r]}

PairRemoveFile(files, path) == {f \in files : f.path # path}

\* the initial state of the two resources
InitPair == InitWith(ImageURLs \ {EmptyURL}, NewMachines, {NoCluster})

\* lines 198-222, 283-301, 356-375, 440-457: an invocation of resource r
\* whose marker carries no task submits the task of its phase
PairSubmit ==
  /\ \E r \in PairNames :
       /\ pair.task[r] = "none"
       /\ pair.phase[r] # "resize"
       /\ pair' = [pair EXCEPT !.phase[r] = IF @ = "" THEN "download" ELSE @,
                               !.task[r] = "running"]
  /\ UNCHANGED <<spec, store, vms, nextTask, pc, machine, fresh, taskID, vm, i, ret, calls,
                 result, entry, submitted, polledDone, interrupted, cluster, clusterRun>>

\* the appliance runs the task of resource r: a download writes
\* downloadPath, an extraction or a copy reads it and writes the output
\* path in VM storage, a move takes the output path to finalImagePath; a
\* task whose source file is missing ends in error
PairRun ==
  /\ \E r \in PairNames :
       /\ pair.task[r] = "running"
       /\ LET ph  == pair.phase[r]
              src == IF ph = "rename" THEN PairOutputPath ELSE downloadPath(imageName)
              dst == IF ph = "rename" THEN finalImagePath(r, imageName) ELSE PairOutputPath
          IN IF ph = "download"
               THEN pair' = [pair EXCEPT !.task[r] = "done",
                                         !.files = PairWriteFile(@, downloadPath(imageName), r)]
             ELSE IF ~PairHasFile(src)
               THEN pair' = [pair EXCEPT !.task[r] = "error"]
             ELSE IF ph = "rename"
               THEN pair' = [pair EXCEPT !.task[r] = "done",
                                         !.files = PairWriteFile(PairRemoveFile(@, src), dst, r)]
             ELSE pair' = [pair EXCEPT !.task[r] = "done",
                                       !.files = PairWriteFile(@, dst, r)]
  /\ UNCHANGED <<spec, store, vms, nextTask, pc, machine, fresh, taskID, vm, i, ret, calls,
                 result, entry, submitted, polledDone, interrupted, cluster, clusterRun>>

\* lines 227-272, 303-347, 378-423, 460-488: an invocation of resource r
\* polls its task; done moves the marker to the next phase, error
\* persists a failure text, which decodes to the empty phase (186-193)
PairPoll ==
  /\ \E r \in PairNames :
       /\ pair.task[r] \in {"done", "error"}
       /\ LET ph == pair.phase[r]
              next == CASE ph = "download" ->
                             IF isCompressedFile(imageName) THEN "extract" ELSE "copy"
                        [] ph \in {"extract", "copy"} ->
                             IF PairOutputPath # finalImagePath(r, imageName)
                               THEN "rename" ELSE "resize"
                        [] OTHER -> "resize"
          IN pair' = [pair EXCEPT !.task[r] = "none",
                                  !.phase[r] = IF pair.task[r] = "done" THEN next ELSE ""]
  /\ UNCHANGED <<spec, store, vms, nextTask, pc, machine, fresh, taskID, vm, i, ret, calls,
                 result, entry, submitted, polledDone, interrupted, cluster, clusterRun>>

NextPair == PairSubmit \/ PairRun \/ PairPoll

SpecPair == InitPair /\ [][NextPair]_vars

\* C32: two resources with one image URL and different VM names do not
\* interfere: the file a resource's extraction or copy left in VM storage
\* is still there, written last by that resource, until its own move takes
\* it; the image a resource is resizing is the file it placed; and no task
\* of either resource fails.
C32_NoInterference ==
  \A r \in PairNames :
    /\ (pair.phase[r] = "rename" /\ pair.task[r] \in {"none", "running"})
         => [path |-> PairOutputPath, by |-> r] \in pair.files
    /\ pair.phase[r] = "resize"
         => [path |-> finalImagePath(r, imageName), by |-> r] \in pair.files
    /\ pair.task[r] # "error"

====
